---------------------------- MODULE Spec2Model ----------------------------
(***************************************************************************)
(* A model of the TypeScript bundler src/xp/cats.py: the file classifier   *)
(* find_ts_files, the per-file transformer process_and_collect, the alias  *)
(* planner analyze_imports_and_plan, the assembler assemble_and_write and  *)
(* the driver main.                                                        *)
(*                                                                         *)
(* Text is modelled character by character: a Python str is a sequence of  *)
(* one-character strings, so that the regular-expression rewrite of the    *)
(* assembler and the string comparisons of sorted()/min() are computed as  *)
(* the program computes them.                                              *)
(***************************************************************************)
EXTENDS Integers, Sequences, FiniteSets, TLC

VARIABLES
    tree,                   \* the regular files below the input root (paths)
    content,                \* file path -> its content, a sequence of statements
    unreadable,             \* the files whose open()/read() raises
    pc,                     \* position of main()
    walk_stack,             \* os.walk: directories still to be visited
    walked,                 \* os.walk: directories visited so far
    main_files,             \* find_ts_files: main_files
    test_files,             \* find_ts_files: test_files
    proc_i,                 \* process_and_collect: files of the current list done
    main_chunks,            \* main(): main_chunks
    test_chunks,            \* main(): test_chunks
    exports_map,            \* main(): exports_map
    namespace_imports_map,  \* main(): namespace_imports_map
    log,                    \* warnings and errors printed so far
    target_to_aliases,      \* analyze_imports_and_plan: target_to_aliases
    plan_i,                 \* analyze_imports_and_plan: targets done
    chosen,                 \* analyze_imports_and_plan: per target, the local `canonical`
    alias_redirects,        \* analyze_imports_and_plan: alias_redirects
    canonical_to_target,    \* analyze_imports_and_plan: canonical_to_target
    main_out,               \* the file cats.ts as written
    test_out,               \* the file cats_test.ts as written
    run,                    \* how many times the program has been started
    prev_out                \* the two output files of the previous run

vars == <<tree, content, unreadable, pc, walk_stack, walked, main_files, test_files,
          proc_i, main_chunks, test_chunks, exports_map, namespace_imports_map, log,
          target_to_aliases, plan_i, chosen, alias_redirects, canonical_to_target,
          main_out, test_out, run, prev_out>>

---------------------------------------------------------------------------
(* Python str: characters, order, case.                                    *)

\* The printable ASCII characters in code-point order, from " " (32) to "~" (126).
\* A TLA+ string cannot hold the grave accent, which is written "U+0060".
AsciiTable ==
    <<" ", "!", "\"", "#", "$", "%", "&", "'", "(", ")", "*", "+", ",", "-", ".", "/", "0",
      "1", "2", "3", "4", "5", "6", "7", "8", "9", ":", ";", "<", "=", ">", "?", "@", "A", "B",
      "C", "D", "E", "F", "G", "H", "I", "J", "K", "L", "M", "N", "O", "P", "Q", "R", "S", "T",
      "U", "V", "W", "X", "Y", "Z", "[", "\\", "]", "^", "_", "U+0060", "a", "b", "c", "d", "e",
      "f", "g", "h", "i", "j", "k", "l", "m", "n", "o", "p", "q", "r", "s", "t", "u", "v", "w",
      "x", "y", "z", "{", "|", "}", "~">>

\* ord(c)
Ord(c) == IF c = "\n" THEN 10 ELSE 31 + (CHOOSE i \in 1..Len(AsciiTable) : AsciiTable[i] = c)

LowerLetters == {AsciiTable[i] : i \in 66..91}
UpperLetters == {AsciiTable[i] : i \in 34..59}
Digits == {AsciiTable[i] : i \in 17..26}

\* A character matched by \w in the program's patterns.
IsWordChar(c) == c \in LowerLetters \cup UpperLetters \cup Digits \cup {"_"}

\* str.lower() of one character and of a string
LowerChar(c) == IF c \in UpperLetters THEN AsciiTable[Ord(c) - 31 + 32] ELSE c
Lower(s) == [i \in 1..Len(s) |-> LowerChar(s[i])]

\* s < t for two str, as Python compares them: by code point, a proper prefix first
RECURSIVE StrLess(_, _)
StrLess(s, t) ==
    IF t = <<>> THEN FALSE
    ELSE IF s = <<>> THEN TRUE
    ELSE IF Head(s) = Head(t) THEN StrLess(Tail(s), Tail(t))
    ELSE Ord(Head(s)) < Ord(Head(t))

\* str.endswith, str.startswith
EndsWith(s, suffix) ==
    /\ Len(suffix) <= Len(s)
    /\ SubSeq(s, Len(s) - Len(suffix) + 1, Len(s)) = suffix
StartsWith(s, prefix) ==
    /\ Len(prefix) <= Len(s)
    /\ SubSeq(s, 1, Len(prefix)) = prefix

\* "".join(parts) and sep.join(parts)
RECURSIVE Concat(_)
Concat(parts) == IF parts = <<>> THEN <<>> ELSE Head(parts) \o Concat(Tail(parts))
RECURSIVE Join(_, _)
Join(sep, parts) ==
    IF parts = <<>> THEN <<>>
    ELSE IF Len(parts) = 1 THEN parts[1]
    ELSE parts[1] \o sep \o Join(sep, Tail(parts))

\* sorted(S) for a set of str
RECURSIVE SortedStrs(_)
SortedStrs(S) ==
    IF S = {} THEN <<>>
    ELSE LET m == CHOOSE x \in S : \A y \in S \ {x} : StrLess(x, y)
         IN  <<m>> \o SortedStrs(S \ {m})

\* The orders in which a set can be iterated.
IterationOrders(S) ==
    {o \in [1..Cardinality(S) -> S] : \A i, j \in 1..Cardinality(S) : o[i] = o[j] => i = j}

---------------------------------------------------------------------------
(* Python dict, which keeps insertion order: a sequence of [k, v] records  *)
(* with distinct keys.                                                     *)

DictHas(d, key) == \E i \in 1..Len(d) : d[i].k = key
DictGet(d, key) == d[CHOOSE i \in 1..Len(d) : d[i].k = key].v
DictSet(d, key, val) ==
    IF DictHas(d, key)
    THEN [i \in 1..Len(d) |-> IF d[i].k = key THEN [k |-> key, v |-> val] ELSE d[i]]
    ELSE Append(d, [k |-> key, v |-> val])
DictKeys(d) == {d[i].k : i \in 1..Len(d)}
DictValues(d) == {d[i].v : i \in 1..Len(d)}

---------------------------------------------------------------------------
(* Paths.  A path is the sequence of its components below the input root;  *)
(* abs_directory itself is the empty path.                                 *)

SEP == <<"/">>

\* os.path.join(dirpath, filename), without the common prefix abs_directory
PathStr(p) == Join(SEP, p)
Basename(p) == p[Len(p)]
Dirname(p) == SubSeq(p, 1, Len(p) - 1)

\* list.sort() of a list of distinct paths, compared as the strings they are
RECURSIVE SortedPaths(_)
SortedPaths(S) ==
    IF S = {} THEN <<>>
    ELSE LET m == CHOOSE x \in S : \A y \in S \ {x} : StrLess(PathStr(x), PathStr(y))
         IN  <<m>> \o SortedPaths(S \ {m})

SeqToSet(s) == {s[i] : i \in 1..Len(s)}

---------------------------------------------------------------------------
(* Configuration.                                                          *)

\* LICENSE_TEXT, cut to its first two lines and its last line
LICENSE_TEXT == <<"/", "*", "*", "\n", " ", "*", " ", "@", "l", "i", "c", "e", "n", "s", "e",
                  "\n", " ", "*", "/", "\n">>

\* TEST_HARNESS_CODE, cut to its first three lines and its last line
TEST_HARNESS_CODE ==
    <<"\n", "/", "/", " ", "-", "-", "-", " ", "M", "i", "n", "i", "m", "a", "l", " ", "T", "e",
      "s", "t", " ", "H", "a", "r", "n", "e", "s", "s", " ", "E", "m", "u", "l", "a", "t", "i",
      "o", "n", " ", "-", "-", "-", "\n", "c", "o", "n", "s", "t", " ", "l", "o", "g", " ", "=",
      " ", "c", "o", "n", "s", "o", "l", "e", ".", "l", "o", "g", ";", "\n">>
    \o <<"/", "/", " ", "-", "-", "-", " ", "E", "n", "d", " ", "M", "i", "n", "i", "m", "a",
         "l", " ", "T", "e", "s", "t", " ", "H", "a", "r", "n", "e", "s", "s", " ", "E", "m",
         "u", "l", "a", "t", "i", "o", "n", " ", "-", "-", "-", "\n">>

MAIN_OUTPUT_BASENAME == <<"c", "a", "t", "s">>
TEST_FILE_SUFFIX == <<"_", "t", "e", "s", "t", ".", "t", "s">>

---------------------------------------------------------------------------
(* Messages on stdout/stderr that report a warning or an error.            *)

LogEntry(kind, arg) == [kind |-> kind, arg |-> arg]
Logged(kind, arg) == \E i \in 1..Len(log) : log[i] = LogEntry(kind, arg)

---------------------------------------------------------------------------
(* analyze_imports_and_plan                                                *)

\* The (alias, target) pairs in the order of the two nested loops over
\* namespace_imports_map.items() and imports.items().
RECURSIVE AllImports(_)
AllImports(nsmap) ==
    IF nsmap = <<>> THEN <<>> ELSE Head(nsmap).v \o AllImports(Tail(nsmap))

\* target_to_aliases[target].add(alias), for every pair
RECURSIVE GroupByTarget(_, _)
GroupByTarget(pairs, acc) ==
    IF pairs = <<>> THEN acc
    ELSE LET alias == Head(pairs).k
             target == Head(pairs).v
             old == IF DictHas(acc, target) THEN DictGet(acc, target) ELSE {}
         IN  GroupByTarget(Tail(pairs), DictSet(acc, target, old \cup {alias}))

\* (len(x), x) < (len(y), y)
KeyLess(x, y) == Len(x) < Len(y) \/ (Len(x) = Len(y) /\ StrLess(x, y))

\* min(aliases, key=lambda x: (len(x), x)), the set being iterated in `order`
RECURSIVE MinFrom(_, _, _)
MinFrom(order, i, best) ==
    IF i > Len(order) THEN best
    ELSE MinFrom(order, i + 1, IF KeyLess(order[i], best) THEN order[i] ELSE best)
\* min(aliases, key=len): the first of the shortest aliases, whatever their order.
RECURSIVE ShortestFrom(_, _, _)
ShortestFrom(order, i, best) ==
    IF i > Len(order) THEN best
    ELSE ShortestFrom(order, i + 1, IF Len(order[i]) < Len(best) THEN order[i] ELSE best)
MinAliasByLengthOnly(order) == ShortestFrom(order, 2, order[1])

MinAlias(order) == MinFrom(order, 2, order[1])

\* The body of `for alias in aliases`, on the pair (alias_redirects, log).
RedirectOne(st, alias, canonical) ==
    IF alias # canonical
    THEN IF DictHas(st.redirects, alias) /\ DictGet(st.redirects, alias) # canonical
         THEN [st EXCEPT !.log = Append(@, LogEntry("alias_conflict", alias))]
         ELSE IF ~DictHas(st.redirects, alias)
              THEN [st EXCEPT !.redirects = DictSet(@, alias, canonical)]
              ELSE st
    ELSE IF ~DictHas(st.redirects, alias)
         THEN [st EXCEPT !.redirects = DictSet(@, alias, canonical)]
         ELSE st

RECURSIVE RedirectAll(_, _, _, _)
RedirectAll(st, order, i, canonical) ==
    IF i > Len(order) THEN st
    ELSE RedirectAll(RedirectOne(st, order[i], canonical), order, i + 1, canonical)

\* The statements before the loop over the targets.
analyze_start ==
    /\ pc = "plan"
    /\ target_to_aliases' = GroupByTarget(AllImports(namespace_imports_map), <<>>)
    /\ alias_redirects' = <<>>
    /\ canonical_to_target' = <<>>
    /\ chosen' = <<>>
    /\ plan_i' = 0
    /\ pc' = IF target_to_aliases' = <<>> THEN "asm_main" ELSE "assign"
    /\ UNCHANGED <<tree, content, unreadable, walk_stack, walked, main_files, test_files,
                   proc_i, main_chunks, test_chunks, exports_map, namespace_imports_map,
                   log, main_out, test_out, run, prev_out>>

\* One iteration of `for target, aliases in target_to_aliases.items()`; the set
\* `aliases` is iterated in an order the program does not fix.
assign_canonical ==
    /\ pc = "assign"
    /\ LET target == target_to_aliases[plan_i + 1].k
           aliases == target_to_aliases[plan_i + 1].v
       IN  \E order \in IterationOrders(aliases) :
             LET canonical == MinAlias(order)
                 st == RedirectAll([redirects |-> alias_redirects, log |-> log],
                                   order, 1, canonical)
             IN  IF aliases = {}
                 THEN UNCHANGED <<canonical_to_target, chosen, alias_redirects, log>>
                 ELSE /\ canonical_to_target' = DictSet(canonical_to_target, canonical, target)
                      /\ chosen' = DictSet(chosen, target, canonical)
                      /\ alias_redirects' = st.redirects
                      /\ log' = st.log
    /\ plan_i' = plan_i + 1
    /\ pc' = IF plan_i + 1 = Len(target_to_aliases) THEN "asm_main" ELSE "assign"
    /\ UNCHANGED <<tree, content, unreadable, walk_stack, walked, main_files, test_files,
                   proc_i, main_chunks, test_chunks, exports_map, namespace_imports_map,
                   target_to_aliases, main_out, test_out, run, prev_out>>

---------------------------------------------------------------------------
(* assemble_and_write                                                      *)

\* re.sub(r"\b" + re.escape(old_alias) + r"\.", f"{canonical_alias}.", text): the
\* pattern matches at i when a word boundary precedes text[i], the alias follows
\* and a "." follows the alias.
MatchesAt(text, i, old_alias) ==
    /\ text[i] = old_alias[1]
    /\ i + Len(old_alias) <= Len(text)
    /\ text[i + Len(old_alias)] = "."
    /\ i = 1 \/ ~IsWordChar(text[i - 1])
    /\ SubSeq(text, i, i + Len(old_alias) - 1) = old_alias

\* The matches that re.sub replaces, from left to right.  A match is a whole word
\* and the "." after it, so no two matches overlap.
RECURSIVE ReSubFrom(_, _, _, _, _)
ReSubFrom(text, from, matches, old_alias, canonical_alias) ==
    LET rest == {m \in matches : m >= from}
    IN  IF rest = {} THEN SubSeq(text, from, Len(text))
        ELSE LET m == CHOOSE x \in rest : \A y \in rest : x <= y
             IN  SubSeq(text, from, m - 1) \o canonical_alias \o <<".">>
                 \o ReSubFrom(text, m + Len(old_alias) + 1, matches, old_alias,
                              canonical_alias)
ReSub(text, old_alias, canonical_alias) ==
    ReSubFrom(text, 1, {i \in 1..Len(text) : MatchesAt(text, i, old_alias)},
              old_alias, canonical_alias)

\* "Apply Alias Rewrites": the rules in the order of alias_redirects.items()
RECURSIVE ApplyRewritesFrom(_, _, _)
ApplyRewritesFrom(text, redirects, i) ==
    IF i > Len(redirects) THEN text
    ELSE ApplyRewritesFrom(
             IF redirects[i].k = redirects[i].v THEN text
             ELSE ReSub(text, redirects[i].k, redirects[i].v),
             redirects, i + 1)
ApplyRewrites(text, redirects) == ApplyRewritesFrom(text, redirects, 1)

\* list(exports_map.get(target_path, set())) without sorted(): here, the reverse order.
UnsortedSymbols(exports, target_path) ==
    LET s == SortedStrs(IF DictHas(exports, target_path) THEN DictGet(exports, target_path)
                        ELSE {})
    IN  [i \in 1..Len(s) |-> s[Len(s) + 1 - i]]

\* sorted(list(exports_map.get(target_path, set())))
ExportedSymbols(exports, target_path) ==
    SortedStrs(IF DictHas(exports, target_path) THEN DictGet(exports, target_path) ELSE {})

\* const_decl
ConstDecl(alias, symbols) ==
    <<"e", "x", "p", "o", "r", "t", " ", "c", "o", "n", "s", "t", " ">> \o alias \o <<" ", "=",
                                                                                      " ", "{",
                                                                                      " ">> \o Join(<<",",
                                                                                                      " ">>, symbols) \o <<" ",
                                                                                                                           "}",
                                                                                                                           ";">>

\* import_stmt
ImportStmt(aliases) ==
    <<"i", "m", "p", "o", "r", "t", " ", "{", " ">> \o Join(<<",", " ">>, aliases) \o <<" ", "}",
                                                                                        " ", "f",
                                                                                        "r", "o",
                                                                                        "m", " ",
                                                                                        "'", ".",
                                                                                        "/">>
    \o MAIN_OUTPUT_BASENAME \o <<".", "j", "s", "'", ";">>

\* prefix_declarations of the main bundle
RECURSIVE AliasDecls(_, _, _)
AliasDecls(aliases, exports, canonical) ==
    IF aliases = <<>> THEN <<>>
    ELSE LET symbols == ExportedSymbols(exports, DictGet(canonical, Head(aliases)))
         IN  (IF symbols # <<>> THEN <<ConstDecl(Head(aliases), symbols)>> ELSE <<>>)
             \o AliasDecls(Tail(aliases), exports, canonical)

PrefixDeclarations(exports, canonical) ==
    LET all_canonical_aliases == SortedStrs(DictKeys(canonical))
    IN  IF all_canonical_aliases = <<>> THEN <<>>
        ELSE <<<<"/", "/", " ", "-", "-", "-", " ", "E", "x", "p", "o", "r", "t", "e", "d", " ",
                 "N", "a", "m", "e", "s", "p", "a", "c", "e", " ", "A", "l", "i", "a", "s", " ",
                 "O", "b", "j", "e", "c", "t", "s", " ", "-", "-", "-">>>>
             \o AliasDecls(all_canonical_aliases, exports, canonical)
             \o <<<<"/", "/", " ", "-", "-", "-", " ", "E", "n", "d", " ", "E", "x", "p", "o",
                    "r", "t", "e", "d", " ", "N", "a", "m", "e", "s", "p", "a", "c", "e", " ",
                    "A", "l", "i", "a", "s", " ", "O", "b", "j", "e", "c", "t", "s", " ", "-",
                    "-", "-", "\n">>>>

\* prefix_imports of the test bundle
PrefixImports(canonical) ==
    LET all_canonical_aliases == SortedStrs(DictKeys(canonical))
    IN  IF all_canonical_aliases = <<>> THEN <<>>
        ELSE << <<"/", "/", " ", "-", "-", "-", " ", "I", "m", "p", "o", "r", "t", "s", " ", "f",
                  "r", "o", "m", " ", "M", "a", "i", "n", " ", "B", "u", "n", "d", "l", "e", " ",
                  "-", "-", "-">>,
                <<"/", "/", " ", "T", "h", "e", "s", "e", " ", "i", "m", "p", "o", "r", "t", "s",
                  " ", "b", "r", "i", "n", "g", " ", "t", "h", "e", " ", "a", "l", "i", "a", "s",
                  " ", "o", "b", "j", "e", "c", "t", "s", " ", "(", "l", "i", "k", "e", " ", "'",
                  "m", "a", "t", "h", "'", ",", " ", "'", "u", "t", "i", "l", "s", "'", ")", " ",
                  "i", "n", "t", "o", " ", "s", "c", "o", "p", "e", ".">>,
                <<"/", "/", " ", "O", "r", "i", "g", "i", "n", "a", "l", " ", "t", "e", "s", "t",
                  " ", "c", "o", "d", "e", " ", "u", "s", "i", "n", "g", " ", "U+0060", "m", "a",
                  "t", "h", ".", "s", "o", "m", "e", "F", "u", "n", "c", "t", "i", "o", "n", "(",
                  ")", "U+0060", " ", "w", "i", "l", "l", " ", "n", "o", "w", " ", "w", "o", "r",
                  "k", " ", "c", "o", "r", "r", "e", "c", "t", "l", "y", ".">>,
                ImportStmt(all_canonical_aliases),
                <<"/", "/", " ", "-", "-", "-", " ", "E", "n", "d", " ", "I", "m", "p", "o", "r",
                  "t", "s", " ", "-", "-", "-", "\n">> >>

\* The "[Warn] No exports found for alias" messages of the main bundle, in order.
RECURSIVE NoExportWarnings(_, _, _)
NoExportWarnings(aliases, exports, canonical) ==
    IF aliases = <<>> THEN <<>>
    ELSE (IF ExportedSymbols(exports, DictGet(canonical, Head(aliases))) = <<>>
          THEN <<LogEntry("no_exports", Head(aliases))>> ELSE <<>>)
         \o NoExportWarnings(Tail(aliases), exports, canonical)

\* part + "\n" for part in parts
WithNewlines(parts) == [i \in 1..Len(parts) |-> parts[i] \o <<"\n">>]

\* The test bundle with the harness appended after the test code.
AssembledPartsHarnessLast(code_chunks, exports, canonical, is_test_file) ==
    IF is_test_file
    THEN <<LICENSE_TEXT, <<"\n", "\n">>>>
         \o WithNewlines(PrefixImports(canonical))
         \o code_chunks
         \o <<TEST_HARNESS_CODE, <<"\n", "\n">>>>
         \o <<<<"\n", "\n", "/", "/", " ", "-", "-", "-", " ", "A", "u", "t", "o", "r", "u", "n",
                " ", "T", "e", "s", "t", "s", " ", "-", "-", "-", "\n", "r", "u", "n", "A", "l",
                "l", "T", "e", "s", "t", "s", "A", "n", "d", "R", "e", "p", "o", "r", "t", "(",
                ")", ";", "\n">>>>
    ELSE <<LICENSE_TEXT, <<"\n", "\n">>>>
         \o WithNewlines(PrefixDeclarations(exports, canonical))
         \o code_chunks

\* "".join(output_parts), before the alias rewrites
AssembledParts(code_chunks, exports, canonical, is_test_file) ==
    IF is_test_file
    THEN <<LICENSE_TEXT, <<"\n", "\n">>>>
         \o WithNewlines(PrefixImports(canonical))
         \o <<TEST_HARNESS_CODE, <<"\n", "\n">>>>
         \o code_chunks
         \o <<<<"\n", "\n", "/", "/", " ", "-", "-", "-", " ", "A", "u", "t", "o", "r", "u", "n",
                " ", "T", "e", "s", "t", "s", " ", "-", "-", "-", "\n", "r", "u", "n", "A", "l",
                "l", "T", "e", "s", "t", "s", "A", "n", "d", "R", "e", "p", "o", "r", "t", "(",
                ")", ";", "\n">>>>
    ELSE <<LICENSE_TEXT, <<"\n", "\n">>>>
         \o WithNewlines(PrefixDeclarations(exports, canonical))
         \o code_chunks

\* final_content as handed to f.write
FinalContent(code_chunks, exports, canonical, redirects, is_test_file) ==
    ApplyRewrites(Concat(AssembledParts(code_chunks, exports, canonical, is_test_file)),
                  redirects)

---------------------------------------------------------------------------
(* find_ts_files                                                           *)

IsPrefix(d, p) == Len(d) <= Len(p) /\ SubSeq(p, 1, Len(d)) = d

\* What os.walk lists for the directory d: its sub-directories and its files.
DirnamesOf(d) == {p[Len(d) + 1] : p \in {q \in tree : IsPrefix(d, q) /\ Len(q) > Len(d) + 1}}
FilenamesOf(d) == {p[Len(d) + 1] : p \in {q \in tree : IsPrefix(d, q) /\ Len(q) = Len(d) + 1}}

\* The filter without its last condition.
KeepsDirButBuild(d) ==
    /\ d # <<"n", "o", "d", "e", "_", "m", "o", "d", "u", "l", "e", "s">>
    /\ ~StartsWith(d, <<".">>)
    /\ d # <<"d", "i", "s", "t">>

\* The filter of `dirnames[:] = [...]`
KeepsDir(d) ==
    /\ d # <<"n", "o", "d", "e", "_", "m", "o", "d", "u", "l", "e", "s">>
    /\ ~StartsWith(d, <<".">>)
    /\ d # <<"d", "i", "s", "t">>
    /\ d # <<"b", "u", "i", "l", "d">>

IsSourceName(filename) ==
    /\ EndsWith(Lower(filename), <<".", "t", "s">>)
    /\ ~EndsWith(Lower(filename), <<".", "d", ".", "t", "s">>)
IsTestName(filename) == EndsWith(Lower(filename), TEST_FILE_SUFFIX)

\* The kept directory names, in the order listed.
RECURSIVE PrunedDirs(_, _)
PrunedDirs(dirpath, dirnames) ==
    IF dirnames = <<>> THEN <<>>
    ELSE (IF KeepsDir(Head(dirnames)) THEN <<dirpath \o <<Head(dirnames)>>>> ELSE <<>>)
         \o PrunedDirs(dirpath, Tail(dirnames))

\* The loop with `main_files.append(full_path)` outside the else branch.
RECURSIVE ClassifyFilesNoElse(_, _, _)
ClassifyFilesNoElse(lists, dirpath, filenames) ==
    IF filenames = <<>> THEN lists
    ELSE LET filename == Head(filenames)
             full_path == dirpath \o <<filename>>
             next == IF IsSourceName(filename)
                     THEN IF IsTestName(filename)
                          THEN [main |-> Append(lists.main, full_path),
                                test |-> Append(lists.test, full_path)]
                          ELSE [lists EXCEPT !.main = Append(@, full_path)]
                     ELSE lists
         IN  ClassifyFilesNoElse(next, dirpath, Tail(filenames))

\* `for filename in filenames`, on the pair (main_files, test_files)
RECURSIVE ClassifyFiles(_, _, _)
ClassifyFiles(lists, dirpath, filenames) ==
    IF filenames = <<>> THEN lists
    ELSE LET filename == Head(filenames)
             full_path == dirpath \o <<filename>>
             next == IF IsSourceName(filename)
                     THEN IF IsTestName(filename)
                          THEN [lists EXCEPT !.test = Append(@, full_path)]
                          ELSE [lists EXCEPT !.main = Append(@, full_path)]
                     ELSE lists
         IN  ClassifyFiles(next, dirpath, Tail(filenames))

\* The list left as the walk filled it.
Unsorted(files) == files

\* list.sort()
SortList(files) == SortedPaths(SeqToSet(files))

\* One iteration of `for dirpath, dirnames, filenames in os.walk(..., topdown=True)`;
\* the file system lists a directory in an order the program does not fix.  The
\* last iteration is followed by the two sorts and the return.
find_ts_files ==
    /\ pc = "find"
    /\ walk_stack # <<>>
    /\ LET dirpath == Head(walk_stack)
       IN  \E dirnames \in IterationOrders(DirnamesOf(dirpath)),
              filenames \in IterationOrders(FilenamesOf(dirpath)) :
             LET lists == ClassifyFiles([main |-> main_files, test |-> test_files],
                                        dirpath, filenames)
                 stack == PrunedDirs(dirpath, dirnames) \o Tail(walk_stack)
             IN  /\ walk_stack' = stack
                 /\ walked' = walked \cup {dirpath}
                 /\ IF stack = <<>>
                    THEN /\ main_files' = SortList(lists.main)
                         /\ test_files' = SortList(lists.test)
                         /\ pc' = "found"
                    ELSE /\ main_files' = lists.main
                         /\ test_files' = lists.test
                         /\ pc' = "find"
    /\ UNCHANGED <<tree, content, unreadable, proc_i, main_chunks, test_chunks,
                   exports_map, namespace_imports_map, log, target_to_aliases, plan_i,
                   chosen, alias_redirects, canonical_to_target, main_out, test_out,
                   run, prev_out>>

---------------------------------------------------------------------------
(* resolve_relative_path                                                   *)

\* s.split(c)
RECURSIVE SplitFrom(_, _, _, _)
SplitFrom(s, c, i, cur) ==
    IF i > Len(s) THEN <<cur>>
    ELSE IF s[i] = c THEN <<cur>> \o SplitFrom(s, c, i + 1, <<>>)
    ELSE SplitFrom(s, c, i + 1, Append(cur, s[i]))
Split(s, c) == SplitFrom(s, c, 1, <<>>)

\* The index of the "." that starts the extension of a file name, or 0: the last
\* "." that follows a character other than "." (os.path.splitext).
RECURSIVE ExtDot(_, _)
ExtDot(name, i) ==
    IF i < 2 THEN 0
    ELSE IF name[i] = "." /\ \E j \in 1..(i - 1) : name[j] # "." THEN i
    ELSE ExtDot(name, i - 1)

\* os.path.splitext(path), on the components of the path
SplitExt(comps) ==
    LET name == comps[Len(comps)]
        dot == ExtDot(name, Len(name))
    IN  IF dot = 0 THEN [base |-> comps, ext |-> <<>>]
        ELSE [base |-> [comps EXCEPT ![Len(comps)] = SubSeq(name, 1, dot - 1)],
              ext |-> SubSeq(name, dot, Len(name))]

\* Optional[str]: the value None, which is no path (a path has no empty component).
None == <<<<>>>>

\* A path that is not below the input root.
Outside == <<<<>>, <<>>>>

\* os.path.abspath(os.path.join(source_dir, target_base)): "." and "" are dropped
\* and ".." removes a component.
RECURSIVE Normalize(_, _)
Normalize(dir, comps) ==
    IF dir = Outside \/ comps = <<>> THEN dir
    ELSE IF Head(comps) \in {<<>>, <<".">>} THEN Normalize(dir, Tail(comps))
    ELSE IF Head(comps) = <<".", ".">>
         THEN Normalize(IF dir = <<>> THEN Outside ELSE Dirname(dir), Tail(comps))
    ELSE Normalize(Append(dir, Head(comps)), Tail(comps))

IsFile(p) == p # Outside /\ p \in tree
IsDir(p) == p # Outside /\ \E q \in tree : IsPrefix(p, q) /\ Len(q) > Len(p)

\* The resolved target, or None.  The second pair of checks, made when the
\* import names a ".js" file, repeats the first.
resolve_relative_path(source_file_abs_path, relative_import_path) ==
    LET source_dir == Dirname(source_file_abs_path)
        norm_rel_path == [i \in 1..Len(relative_import_path) |->
                            IF relative_import_path[i] = "\\" THEN "/"
                            ELSE relative_import_path[i]]
        split == SplitExt(Split(norm_rel_path, "/"))
        base_abs == Normalize(source_dir, split.base)
        ts_path == IF base_abs \in {Outside, <<>>} THEN Outside
                   ELSE [base_abs EXCEPT ![Len(base_abs)] = @ \o <<".", "t", "s">>]
        idx_path == IF base_abs = Outside THEN Outside ELSE Append(base_abs, <<"i", "n", "d",
                                                                               "e", "x", ".",
                                                                               "t", "s">>)
    IN  IF IsFile(ts_path) THEN ts_path
        ELSE IF IsDir(base_abs) /\ IsFile(idx_path) THEN idx_path
        ELSE IF Lower(split.ext) = <<".", "j", "s">> /\ IsFile(ts_path) THEN ts_path
        ELSE IF Lower(split.ext) = <<".", "j", "s">> /\ IsDir(base_abs) /\ IsFile(idx_path) THEN idx_path
        ELSE None

---------------------------------------------------------------------------
(* process_and_collect                                                     *)
(*                                                                         *)
(* The content of a file is a sequence of statements, one per line, with   *)
(* no indentation and no blank line:                                       *)
(*   import_ns       import * as <a> from '<b>';                           *)
(*   export_decl     export <b> <a>() {}                                   *)
(*   export_default  export default <b> <a>() {}                           *)
(*   export_list     export { <a> };   or   export { <a> as <b> };         *)
(*   export_from     export { <a> } from '<b>';   or   export * from '<b>';*)
(*   code            <a>       (text that none of the patterns matches)    *)

Stmt(kind, a, b) == [kind |-> kind, a |-> a, b |-> b]

\* The keywords of EXPORT_NAMED_CAPTURE_REGEX
CapturedKeywords ==
    {<<"c", "l", "a", "s", "s">>, <<"f", "u", "n", "c", "t", "i", "o", "n">>, <<"c", "o", "n",
                                                                                "s", "t">>, <<"l",
                                                                                              "e",
                                                                                              "t">>, <<"v",
                                                                                                       "a",
                                                                                                       "r">>, <<"e",
                                                                                                                "n",
                                                                                                                "u",
                                                                                                                "m">>}

\* The text of a statement in the file.
Render(stmt) ==
    IF stmt.kind = "import_ns"
    THEN <<"i", "m", "p", "o", "r", "t", " ", "*", " ", "a", "s", " ">> \o stmt.a \o <<" ", "f",
                                                                                       "r", "o",
                                                                                       "m", " ",
                                                                                       "'">> \o stmt.b \o <<"'",
                                                                                                            ";">>
    ELSE IF stmt.kind = "export_decl"
    THEN <<"e", "x", "p", "o", "r", "t", " ">> \o stmt.b \o <<" ">> \o stmt.a \o <<"(", ")", " ",
                                                                                   "{", "}">>
    ELSE IF stmt.kind = "export_default"
    THEN <<"e", "x", "p", "o", "r", "t", " ", "d", "e", "f", "a", "u", "l", "t", " ">> \o stmt.b \o <<" ">> \o stmt.a \o <<"(",
                                                                                                                           ")",
                                                                                                                           " ",
                                                                                                                           "{",
                                                                                                                           "}">>
    ELSE IF stmt.kind = "export_list"
    THEN <<"e", "x", "p", "o", "r", "t", " ", "{", " ">> \o stmt.a
         \o (IF stmt.b = <<>> THEN <<>> ELSE <<" ", "a", "s", " ">> \o stmt.b) \o <<" ", "}", ";">>
    ELSE IF stmt.kind = "export_from"
    THEN <<"e", "x", "p", "o", "r", "t", " ">> \o (IF stmt.a = <<"*">> THEN stmt.a ELSE <<"{", " ">> \o stmt.a \o <<" ",
                                                                                                                    "}">>)
         \o <<" ", "f", "r", "o", "m", " ", "'">> \o stmt.b \o <<"'", ";">>
    ELSE stmt.a

\* A line after the substitutions of IMPORT_NAMESPACE_REGEX (the statement is
\* removed, its line stays), of EXPORT_DECL_PATTERN (the keyword export and the
\* space after it are removed) and of EXPORT_DEFAULT_PATTERN (`export default `
\* becomes a comment).
TransformedLine(stmt) ==
    IF stmt.kind = "import_ns" THEN <<>>
    ELSE IF stmt.kind = "export_decl" THEN stmt.b \o <<" ">> \o stmt.a \o <<"(", ")", " ", "{",
                                                                            "}">>
    ELSE IF stmt.kind = "export_default"
    THEN <<"/", "*", " ", "e", "x", "p", "o", "r", "t", " ", "d", "e", "f", "a", "u", "l", "t",
           " ", "*", "/", " ">> \o stmt.b \o <<" ">> \o stmt.a \o <<"(", ")", " ", "{", "}">>
    ELSE Render(stmt)

\* EXPORT_FROM_PATTERN matches every export_from statement of a relative path;
\* EXPORT_LIST_PATTERN matches a brace list of one name without `as`.
MatchesExportFrom(stmt) == stmt.kind = "export_from"
MatchesExportList(stmt) == stmt.kind = "export_list" /\ stmt.b = <<>>

\* The elements of seq at the indices of kept, from i on.
RECURSIVE KeepAt(_, _, _)
KeepAt(seq, kept, i) ==
    IF i > Len(seq) THEN <<>>
    ELSE (IF i \in kept THEN <<seq[i]>> ELSE <<>>) \o KeepAt(seq, kept, i + 1)

\* pattern.sub("", content) for a pattern `^\s*export ... ;?\s*`, on the lines of
\* the content, each with the statement it comes from: a match takes the
\* statement, the blank lines before it and the line ends and blank lines after
\* it.  `matched` holds the indices of the statements the pattern matches.
RemoveStatements(items, matched) ==
    LET blank(i) == items[i].text = <<>>
        taken(i) ==
            \/ i \in matched
            \/ /\ blank(i)
               /\ \E j \in matched :
                     \A k \in 1..Len(items) :
                        (k > i /\ k < j) \/ (k > j /\ k < i) => blank(k)
    IN  KeepAt(items, {i \in 1..Len(items) : ~taken(i)}, 1)

\* str.strip()
Whitespace == {" ", "\n", "\t"}
RECURSIVE LStrip(_)
LStrip(s) == IF s # <<>> /\ Head(s) \in Whitespace THEN LStrip(Tail(s)) ELSE s
RECURSIVE RStrip(_)
RStrip(s) ==
    IF s # <<>> /\ s[Len(s)] \in Whitespace THEN RStrip(SubSeq(s, 1, Len(s) - 1)) ELSE s
Strip(s) == RStrip(LStrip(s))

create_section_header(relative_filepath) ==
    <<"\n", "\n", "/", "/", " ", "-", "-", "-", " ", "B", "E", "G", "I", "N", " ", "F", "I", "L",
      "E", ":", " ">> \o relative_filepath \o <<" ", "-", "-", "-", "\n">>
create_section_footer(relative_filepath) ==
    <<"\n", "/", "/", " ", "-", "-", "-", " ", "E", "N", "D", " ", "F", "I", "L", "E", ":", " ">> \o relative_filepath \o <<" ",
                                                                                                                            "-",
                                                                                                                            "-",
                                                                                                                            "-",
                                                                                                                            "\n">>

\* `for alias, rel_path in ns_imports`, on the pair (current_ns_imports, log)
RECURSIVE CollectNsImports(_, _, _)
CollectNsImports(st, abs_file_path, stmts) ==
    IF stmts = <<>> THEN st
    ELSE LET s == Head(stmts)
             target == resolve_relative_path(abs_file_path, s.b)
             next == IF s.kind # "import_ns" THEN st
                     ELSE IF target # None
                          THEN [st EXCEPT !.imports = DictSet(@, s.a, target)]
                          ELSE IF StartsWith(s.b, <<".">>)
                               THEN [st EXCEPT !.log = Append(@, LogEntry("cannot_resolve", s.b))]
                               ELSE st
         IN  CollectNsImports(next, abs_file_path, Tail(stmts))

\* The names EXPORT_NAMED_CAPTURE_REGEX, EXPORT_DEFAULT_CAPTURE_REGEX and
\* EXPORT_NAMED_LIST_CAPTURE_REGEX with EXPORT_LIST_ITEM_REGEX capture from one
\* statement.  The list pattern ends at the closing brace, so it also matches
\* the brace list of an export_from statement; an item `x as y` gives y.
CapturedNames(stmt) ==
    IF stmt.kind = "export_decl" /\ stmt.b \in CapturedKeywords THEN {stmt.a}
    ELSE IF stmt.kind = "export_default" THEN {stmt.a}
    ELSE IF stmt.kind = "export_list" THEN {IF stmt.b # <<>> THEN stmt.b ELSE stmt.a}
    ELSE IF stmt.kind = "export_from" /\ stmt.a # <<"*">> THEN {stmt.a}
    ELSE {}

\* current_exports, captured from original_content
CapturedExports(original_content) ==
    UNION {CapturedNames(original_content[i]) : i \in 1..Len(original_content)}

\* The body of the try block for one file whose content can be read: the chunk
\* (<<>> when the trimmed content is empty), current_exports, current_ns_imports
\* and the warnings printed.
TransformFile(file_path) ==
    LET relative_path == PathStr(file_path)
        original_content == content[file_path]
        ns == CollectNsImports([imports |-> <<>>, log |-> <<>>], file_path, original_content)
        items == [i \in 1..Len(original_content) |->
                    [stmt |-> original_content[i],
                     text |-> TransformedLine(original_content[i])]]
        no_from == RemoveStatements(items,
                       {i \in 1..Len(items) : MatchesExportFrom(items[i].stmt)})
        no_list == RemoveStatements(no_from,
                       {i \in 1..Len(no_from) : MatchesExportList(no_from[i].stmt)})
        lines == [i \in 1..Len(no_list) |-> no_list[i].text]
        trimmed == Strip(Join(<<"\n">>, lines))
    IN  [chunk |-> IF trimmed = <<>> THEN <<>>
                   ELSE create_section_header(relative_path) \o trimmed
                        \o create_section_footer(relative_path),
         exports |-> CapturedExports(original_content),
         imports |-> ns.imports,
         log |-> ns.log]

\* exports_map[abs_file_path].update(current_exports), exports_map a defaultdict(set)
UpdateExports(exports, abs_file_path, current_exports) ==
    DictSet(exports, abs_file_path,
            (IF DictHas(exports, abs_file_path) THEN DictGet(exports, abs_file_path) ELSE {})
            \cup current_exports)

\* A failure raised only after line 368 has stored the namespace imports.
ProcessOneFailingLate(file_path) ==
    IF file_path \in unreadable
    THEN [chunk |-> <<>>, exports |-> {}, imports |-> TransformFile(file_path).imports,
          log |-> <<LogEntry("error_processing", PathStr(file_path))>>]
    ELSE TransformFile(file_path)

\* What one file does to the run: its chunk, exports, imports and messages.  When
\* the file cannot be read, open() or read() raises before anything is recorded and
\* the except clause prints the error.
ProcessOne(file_path) ==
    IF file_path \in unreadable
    THEN [chunk |-> <<>>, exports |-> {}, imports |-> <<>>,
          log |-> <<LogEntry("error_processing", PathStr(file_path))>>]
    ELSE TransformFile(file_path)

\* One iteration of `for file_path in files` of process_and_collect, called by main
\* for main_files and then for test_files; after the last file of a list, the
\* return to main.
process_and_collect ==
    /\ pc \in {"proc_main", "proc_test"}
    /\ LET files == IF pc = "proc_main" THEN main_files ELSE test_files
           r == ProcessOne(files[proc_i + 1])
           last == proc_i + 1 = Len(files)
           added == IF r.chunk = <<>> THEN <<>> ELSE <<r.chunk>>
       IN  /\ log' = log \o r.log
           /\ namespace_imports_map' =
                IF r.imports # <<>>
                THEN DictSet(namespace_imports_map, files[proc_i + 1], r.imports)
                ELSE namespace_imports_map
           /\ exports_map' =
                IF r.exports # {}
                THEN UpdateExports(exports_map, files[proc_i + 1], r.exports)
                ELSE exports_map
           /\ IF pc = "proc_main"
              THEN /\ main_chunks' = main_chunks \o added
                   /\ UNCHANGED test_chunks
              ELSE /\ test_chunks' = test_chunks \o added
                   /\ UNCHANGED main_chunks
           /\ proc_i' = IF last THEN 0 ELSE proc_i + 1
           /\ pc' = IF ~last THEN pc
                    ELSE IF pc = "proc_main" /\ test_files # <<>> THEN "proc_test"
                    ELSE "plan"
    /\ UNCHANGED <<tree, content, unreadable, walk_stack, walked, main_files, test_files,
                   target_to_aliases, plan_i, chosen, alias_redirects, canonical_to_target,
                   main_out, test_out, run, prev_out>>

---------------------------------------------------------------------------
(* main                                                                    *)

\* The test written `if not main_files or not test_files`.
main_check_files_EitherEmpty ==
    /\ pc = "found"
    /\ pc' = IF main_files = <<>> \/ test_files = <<>> THEN "exit0"
             ELSE "proc_main"
    /\ exports_map' = <<>>
    /\ namespace_imports_map' = <<>>
    /\ UNCHANGED <<tree, content, unreadable, walk_stack, walked, main_files, test_files,
                   proc_i, main_chunks, test_chunks, log, target_to_aliases, plan_i,
                   chosen, alias_redirects, canonical_to_target, main_out, test_out,
                   run, prev_out>>

\* `if not main_files and not test_files: sys.exit(0)`, and the two new maps
main_check_files ==
    /\ pc = "found"
    /\ pc' = IF main_files = <<>> /\ test_files = <<>> THEN "exit0"
             ELSE IF main_files # <<>> THEN "proc_main"
             ELSE "proc_test"
    /\ exports_map' = <<>>
    /\ namespace_imports_map' = <<>>
    /\ UNCHANGED <<tree, content, unreadable, walk_stack, walked, main_files, test_files,
                   proc_i, main_chunks, test_chunks, log, target_to_aliases, plan_i,
                   chosen, alias_redirects, canonical_to_target, main_out, test_out,
                   run, prev_out>>

\* The except clause of the main bundle's write without its sys.exit(1).
write_main_NoExit ==
    /\ pc = "asm_main"
    /\ IF main_files = <<>>
       THEN /\ pc' = "asm_test"
            /\ UNCHANGED <<main_out, log>>
       ELSE \E written \in BOOLEAN :
              LET all_canonical_aliases == SortedStrs(DictKeys(canonical_to_target))
                  warned == log \o NoExportWarnings(all_canonical_aliases, exports_map,
                                                    canonical_to_target)
              IN  IF written
                  THEN /\ main_out' = FinalContent(main_chunks, exports_map,
                                                   canonical_to_target, alias_redirects, FALSE)
                       /\ log' = warned
                       /\ pc' = "asm_test"
                  ELSE /\ main_out' = main_out
                       /\ log' = Append(warned, LogEntry("failed_writing", <<"c", "a", "t", "s",
                                                                             ".", "t", "s">>))
                       /\ pc' = "asm_test"
    /\ UNCHANGED <<tree, content, unreadable, walk_stack, walked, main_files, test_files,
                   proc_i, main_chunks, test_chunks, exports_map, namespace_imports_map,
                   target_to_aliases, plan_i, chosen, alias_redirects, canonical_to_target,
                   test_out, run, prev_out>>

\* `if main_files: assemble_and_write(main_out, ...)`; the write succeeds or raises
\* IOError, which ends the process with status 1.
write_main ==
    /\ pc = "asm_main"
    /\ IF main_files = <<>>
       THEN /\ pc' = "asm_test"
            /\ UNCHANGED <<main_out, log>>
       ELSE \E written \in BOOLEAN :
              LET all_canonical_aliases == SortedStrs(DictKeys(canonical_to_target))
                  warned == log \o NoExportWarnings(all_canonical_aliases, exports_map,
                                                    canonical_to_target)
              IN  IF written
                  THEN /\ main_out' = FinalContent(main_chunks, exports_map,
                                                   canonical_to_target, alias_redirects, FALSE)
                       /\ log' = warned
                       /\ pc' = "asm_test"
                  ELSE /\ main_out' = main_out
                       /\ log' = Append(warned, LogEntry("failed_writing", <<"c", "a", "t", "s",
                                                                             ".", "t", "s">>))
                       /\ pc' = "exit1"
    /\ UNCHANGED <<tree, content, unreadable, walk_stack, walked, main_files, test_files,
                   proc_i, main_chunks, test_chunks, exports_map, namespace_imports_map,
                   target_to_aliases, plan_i, chosen, alias_redirects, canonical_to_target,
                   test_out, run, prev_out>>

\* `if test_files: assemble_and_write(test_out, ...)`, and the end of main
write_test ==
    /\ pc = "asm_test"
    /\ IF test_files = <<>>
       THEN /\ pc' = "done"
            /\ UNCHANGED <<test_out, log>>
       ELSE \E written \in BOOLEAN :
              IF written
              THEN /\ test_out' = FinalContent(test_chunks, exports_map,
                                               canonical_to_target, alias_redirects, TRUE)
                   /\ log' = log
                   /\ pc' = "done"
              ELSE /\ test_out' = test_out
                   /\ log' = Append(log, LogEntry("failed_writing", <<"c", "a", "t", "s", "_",
                                                                      "t", "e", "s", "t", ".",
                                                                      "t", "s">>))
                   /\ pc' = "exit1"
    /\ UNCHANGED <<tree, content, unreadable, walk_stack, walked, main_files, test_files,
                   proc_i, main_chunks, test_chunks, exports_map, namespace_imports_map,
                   target_to_aliases, plan_i, chosen, alias_redirects, canonical_to_target,
                   main_out, run, prev_out>>

MaxRuns == 2

\* The program is started again on the same input tree.
rerun ==
    /\ pc = "done"
    /\ run < MaxRuns
    /\ run' = run + 1
    /\ prev_out' = <<main_out, test_out>>
    /\ pc' = "find"
    /\ walk_stack' = <<<<>>>>
    /\ walked' = {}
    /\ main_files' = <<>>
    /\ test_files' = <<>>
    /\ proc_i' = 0
    /\ main_chunks' = <<>>
    /\ test_chunks' = <<>>
    /\ exports_map' = <<>>
    /\ namespace_imports_map' = <<>>
    /\ log' = <<>>
    /\ target_to_aliases' = <<>>
    /\ plan_i' = 0
    /\ chosen' = <<>>
    /\ alias_redirects' = <<>>
    /\ canonical_to_target' = <<>>
    /\ main_out' = <<>>
    /\ test_out' = <<>>
    /\ UNCHANGED <<tree, content, unreadable>>

---------------------------------------------------------------------------
(* Inputs.                                                                 *)

F_a == <<<<"a", ".", "t", "s">>>>
F_b == <<<<"b", ".", "t", "s">>>>
F_c_test == <<<<"c", "_", "t", "e", "s", "t", ".", "t", "s">>>>

ImportNs(alias, rel_path) == Stmt("import_ns", alias, rel_path)
ExportFunction(name) == Stmt("export_decl", name, <<"f", "u", "n", "c", "t", "i", "o", "n">>)
Code(text) == Stmt("code", text, <<>>)
ExportDefault(name) == Stmt("export_default", name, <<"f", "u", "n", "c", "t", "i", "o", "n">>)
ExportList(local, external) == Stmt("export_list", local, external)
ExportFrom(names, rel_path) == Stmt("export_from", names, rel_path)

\* The state in which main() calls find_ts_files, for one input.
Start(t, c, u) ==
    /\ tree = t
    /\ content = c
    /\ unreadable = u
    /\ pc = "find"
    /\ walk_stack = <<<<>>>>
    /\ walked = {}
    /\ main_files = <<>>
    /\ test_files = <<>>
    /\ proc_i = 0
    /\ main_chunks = <<>>
    /\ test_chunks = <<>>
    /\ exports_map = <<>>
    /\ namespace_imports_map = <<>>
    /\ log = <<>>
    /\ target_to_aliases = <<>>
    /\ plan_i = 0
    /\ chosen = <<>>
    /\ alias_redirects = <<>>
    /\ canonical_to_target = <<>>
    /\ main_out = <<>>
    /\ test_out = <<>>
    /\ run = 1
    /\ prev_out = <<>>

\* Spec: any of the three files a.ts, b.ts, c_test.ts, each with one of these contents.
ContentMenu ==
    { <<>>,
      <<ExportFunction(<<"f">>)>>,
      <<ExportFunction(<<"g">>), ExportFunction(<<"f">>)>>,
      <<ImportNs(<<"u">>, <<".", "/", "b">>), Code(<<"u", ".", "f", "(", ")", ";">>)>>,
      <<ImportNs(<<"u", "v">>, <<".", "/", "b">>), Code(<<"u", "v", ".", "f", "(", ")", ";">>)>>,
      <<ImportNs(<<"v">>, <<".", "/", "b", ".", "j", "s">>), ExportFunction(<<"h">>), Code(<<"v",
                                                                                             ".",
                                                                                             "g",
                                                                                             "(",
                                                                                             ")",
                                                                                             ";">>)>>,
      <<ImportNs(<<"u">>, <<".", "/", "a">>)>>,
      <<ImportNs(<<"w">>, <<".", "/", "x">>), Code(<<"w", ".", "f", "(", ")", ";">>)>> }

MaxUnreadable == 1

Init ==
    \E t \in SUBSET {F_a, F_b, F_c_test} :
      \E c \in [t -> ContentMenu] :
        \E u \in {s \in SUBSET t : Cardinality(s) <= MaxUnreadable} :
          Start(t, c, u)

\* SpecPlan: the three files, b.ts exporting f, a.ts and c_test.ts each holding
\* namespace imports of ./a and ./b under the aliases a, b, ab and a use of each alias.
AliasUniverse == {<<"a">>, <<"b">>, <<"a", "b">>}
MaxImports == 4

ImportStmts == {ImportNs(alias, rel) : alias \in AliasUniverse, rel \in {<<".", "/", "a">>, <<".",
                                                                                              "/",
                                                                                              "b">>}}
ImportLists ==
    {l \in UNION {[1..n -> ImportStmts] : n \in 0..Cardinality(AliasUniverse)} :
        \A i, j \in 1..Len(l) : l[i].a = l[j].a => i = j}

InitPlan ==
    \E la, lc \in ImportLists :
      /\ Len(la) + Len(lc) <= MaxImports
      /\ Start({F_a, F_b, F_c_test},
               (F_a :> la \o <<Code(<<"a", ".", "f", "(", ")", ";", " ", "b", ".", "f", "(", ")",
                                      ";", " ", "a", "b", ".", "f", "(", ")", ";">>)>>)
               @@ (F_b :> <<ExportFunction(<<"f">>)>>)
               @@ (F_c_test :> lc \o <<Code(<<"a", ".", "f", "(", ")", ";", " ", "b", ".", "f",
                                              "(", ")", ";", " ", "a", "b", ".", "f", "(", ")",
                                              ";">>)>>),
               {})

\* SpecFind: up to MaxTreeFiles of these files, each importing ./a as u and exporting f.
CandidateFiles ==
    { <<<<"a", ".", "t", "s">>>>,
      <<<<"b", "_", "t", "e", "s", "t", ".", "t", "s">>>>,
      <<<<"t", ".", "d", ".", "t", "s">>>>,
      <<<<"r", ".", "j", "s">>>>,
      <<<<"U", "_", "T", "E", "S", "T", ".", "T", "S">>>>,
      <<<<"n", "o", "d", "e", "_", "m", "o", "d", "u", "l", "e", "s">>, <<"m", ".", "t", "s">>>>,
      <<<<"d", "i", "s", "t">>, <<"d", "_", "t", "e", "s", "t", ".", "t", "s">>>>,
      <<<<"b", "u", "i", "l", "d">>, <<"e", ".", "t", "s">>>>,
      <<<<".", "g", "i", "t">>, <<"g", ".", "t", "s">>>>,
      <<<<"D", "i", "s", "t">>, <<"v", ".", "t", "s">>>>,
      <<<<"s", "u", "b">>, <<"s", ".", "t", "s">>>>,
      <<<<"s", "u", "b">>, <<"n", "o", "d", "e", "_", "m", "o", "d", "u", "l", "e", "s">>, <<"n",
                                                                                             ".",
                                                                                             "t",
                                                                                             "s">>>>,
      <<<<"s", "u", "b">>, <<"b", "u", "i", "l", "d">>, <<"k", "_", "t", "e", "s", "t", ".", "t",
                                                          "s">>>> }
MaxTreeFiles == 3

InitFind ==
    \E t \in {s \in SUBSET CandidateFiles : Cardinality(s) <= MaxTreeFiles} :
      Start(t, [f \in t |-> <<ImportNs(<<"u">>, <<".", "/", "a">>), ExportFunction(<<"f">>),
                               Code(<<"u", ".", "f", "(", ")", ";">>)>>], {})

\* SpecExport: any of the three files, each with one of these contents: the forms
\* of export, and a namespace import of ./b or of ./c_test with a use of it.
ExportMenu ==
    { <<ExportFunction(<<"f">>)>>,
      <<ExportDefault(<<"d">>), ExportFunction(<<"f">>)>>,
      <<Code(<<"f", "u", "n", "c", "t", "i", "o", "n", " ", "l", "(", ")", " ", "{", "}">>), ExportList(<<"l">>, <<>>)>>,
      <<Code(<<"f", "u", "n", "c", "t", "i", "o", "n", " ", "l", "(", ")", " ", "{", "}">>), ExportList(<<"l">>, <<"e">>)>>,
      <<ExportFrom(<<"x">>, <<".", "/", "a">>)>>,
      <<ExportFrom(<<"*">>, <<".", "/", "a">>), ExportFunction(<<"g">>)>>,
      <<Code(<<"l", "e", "t", " ", "k", ";">>), ImportNs(<<"t">>, <<".", "/", "b">>), ExportFrom(<<"*">>, <<".",
                                                                                                            "/",
                                                                                                            "b">>),
        ImportNs(<<"s">>, <<".", "/", "c", "_", "t", "e", "s", "t">>), ExportList(<<"k">>, <<>>), Code(<<"t",
                                                                                                         ".",
                                                                                                         "f",
                                                                                                         "(",
                                                                                                         ")",
                                                                                                         ";">>)>>,
      <<ImportNs(<<"t">>, <<".", "/", "b">>), Code(<<"t", ".", "f", "(", ")", ";">>)>>,
      <<ImportNs(<<"s">>, <<".", "/", "c", "_", "t", "e", "s", "t">>), Code(<<"s", ".", "f", "(",
                                                                              ")", ";">>)>> }

InitExport ==
    \E t \in SUBSET {F_a, F_b, F_c_test} :
      \E c \in [t -> ExportMenu] :
        Start(t, c, {})

---------------------------------------------------------------------------
(* Specifications.                                                         *)

Next ==
    \/ find_ts_files
    \/ main_check_files
    \/ process_and_collect
    \/ analyze_start
    \/ assign_canonical
    \/ write_main
    \/ write_test

\* One run of the program on the inputs of Init.
Spec == Init /\ [][Next]_vars

\* One run on inputs rich in namespace imports.
SpecPlan == InitPlan /\ [][Next]_vars

\* One run on inputs rich in directories and file names.
SpecFind == InitFind /\ [][Next]_vars

\* MaxRuns runs, one after the other, on the inputs of Init.
SpecTwice == Init /\ [][Next \/ rerun]_vars

\* One run on inputs rich in forms of export.
SpecExport == InitExport /\ [][Next]_vars

---------------------------------------------------------------------------
(* Properties of the alias planner and of the alias rewrite (SpecPlan).    *)

\* analyze_imports_and_plan has returned.
PlanDone == pc \in {"asm_main", "asm_test", "done", "exit1"}

\* The namespace-import observations: the targets, and the aliases of a target.
ObservedTargets == {p.v : p \in SeqToSet(AllImports(namespace_imports_map))}
ObservedAliases(target) ==
    {p.k : p \in {q \in SeqToSet(AllImports(namespace_imports_map)) : q.v = target}}

\* The canonical aliases that canonical_to_target registers for a target.
CanonicalsOf(target) ==
    {canonical_to_target[i].k :
        i \in {j \in 1..Len(canonical_to_target) : canonical_to_target[j].v = target}}

\* C1: applying the alias rewrite (every rule alias -> canonical with alias #
\* canonical, in the order of the redirect map) to a written bundle a second time
\* changes nothing.
C1_RewriteIdempotent ==
    /\ main_out # <<>> => ApplyRewrites(main_out, alias_redirects) = main_out
    /\ test_out # <<>> => ApplyRewrites(test_out, alias_redirects) = test_out

\* C2: once the planner has returned, every target with at least one observed
\* alias has exactly one canonical alias in the canonical-alias map.
C2_OneCanonicalPerTarget ==
    PlanDone => \A target \in ObservedTargets : Cardinality(CanonicalsOf(target)) = 1

\* C3: the canonical alias the planner chooses for a target is one of the aliases
\* observed for it in any file, and every other one is longer, or as long and
\* greater in the order of the strings.
C3_CanonicalIsShortestThenSmallest ==
    /\ \A i \in 1..Len(chosen) :
         /\ chosen[i].v \in ObservedAliases(chosen[i].k)
         /\ \A alias \in ObservedAliases(chosen[i].k) \ {chosen[i].v} :
              \/ Len(chosen[i].v) < Len(alias)
              \/ Len(chosen[i].v) = Len(alias) /\ StrLess(chosen[i].v, alias)
    /\ PlanDone => DictKeys(chosen) = ObservedTargets

\* A target imported by the main file a.ts and by the test file c_test.ts, under
\* three aliases of which the two shortest are equally long, has its canonical alias.
C3_Witness ==
    /\ PlanDone
    /\ \E i \in 1..Len(chosen) :
         /\ ObservedAliases(chosen[i].k) = AliasUniverse
         /\ DictHas(namespace_imports_map, F_a)
         /\ DictHas(namespace_imports_map, F_c_test)
         /\ chosen[i].k \in DictValues(DictGet(namespace_imports_map, F_a))
         /\ chosen[i].k \in DictValues(DictGet(namespace_imports_map, F_c_test))

\* C4: once the planner has returned, every key of the canonical-alias map is
\* redirected to itself.
C4_CanonicalMapsToItself ==
    PlanDone =>
        \A i \in 1..Len(canonical_to_target) :
            /\ DictHas(alias_redirects, canonical_to_target[i].k)
            /\ DictGet(alias_redirects, canonical_to_target[i].k) = canonical_to_target[i].k

\* The canonical alias of the first target, in the planner's order, for which the
\* alias was observed: the mapping registered first.
FirstRegistered(alias) ==
    LET first == CHOOSE i \in 1..Len(target_to_aliases) :
                    /\ alias \in target_to_aliases[i].v
                    /\ \A j \in 1..(i - 1) : alias \notin target_to_aliases[j].v
    IN  DictGet(chosen, target_to_aliases[first].k)

\* C5: once the planner has returned, for every alias observed for two distinct
\* targets a warning has been logged and the redirect map holds the mapping
\* registered first; the planner always returns.
C5_CollisionWarnsAndKeepsFirst ==
    PlanDone =>
        \A alias \in AliasUniverse :
            (\E t1, t2 \in ObservedTargets :
                t1 # t2 /\ alias \in ObservedAliases(t1) /\ alias \in ObservedAliases(t2))
            => /\ Logged("alias_conflict", alias)
               /\ DictGet(alias_redirects, alias) = FirstRegistered(alias)

---------------------------------------------------------------------------
(* Properties of the whole run (Spec, SpecTwice, SpecFind).                *)

\* How many times s occurs in text.
Occurrences(text, s) ==
    Cardinality({i \in 1..(Len(text) - Len(s) + 1) :
                    text[i] = s[1] /\ SubSeq(text, i, i + Len(s) - 1) = s})

\* The bundle text, or the list of chunks, holds the chunk of a file.
InBundle(text, file) == Occurrences(text, create_section_header(PathStr(file))) > 0
HasChunk(chunks, file) ==
    \E i \in 1..Len(chunks) :
        StartsWith(chunks[i], create_section_header(PathStr(file)))

\* The names a file's original content exports.
OriginalExports(file) ==
    {content[file][i].a :
        i \in {j \in 1..Len(content[file]) : content[file][j].kind = "export_decl"}}

\* C6: in the written main bundle, every canonical alias whose target has recorded
\* exports has exactly one declaration `export const <alias> = { ... }`, whose
\* members are the exported names of the target's original content in sorted
\* order; a canonical alias whose target has none has no declaration and a
\* warning has been logged.
C6_AliasObjectDeclarations ==
    main_out # <<>> =>
        \A i \in 1..Len(canonical_to_target) :
            LET alias == canonical_to_target[i].k
                target == canonical_to_target[i].v
                opening == <<"e", "x", "p", "o", "r", "t", " ", "c", "o", "n", "s", "t", " ">> \o alias \o <<" ",
                                                                                                             "=",
                                                                                                             " ",
                                                                                                             "{">>
                members == SortedStrs(OriginalExports(target))
            IN  IF DictHas(exports_map, target)
                THEN /\ Occurrences(main_out, opening) = 1
                     /\ Occurrences(main_out,
                                    opening \o <<" ">> \o Join(<<",", " ">>, members) \o <<" ",
                                                                                           "}",
                                                                                           ";">>) = 1
                ELSE /\ Occurrences(main_out, opening) = 0
                     /\ Logged("no_exports", alias)

\* The main bundle is written with one alias object of two members, which the
\* target declares in another order, and one alias whose target records no export.
C6_Witness ==
    /\ main_out # <<>>
    /\ \E i \in 1..Len(canonical_to_target) :
         /\ DictHas(exports_map, canonical_to_target[i].v)
         /\ content[canonical_to_target[i].v]
              = <<ExportFunction(<<"g">>), ExportFunction(<<"f">>)>>
    /\ \E i \in 1..Len(canonical_to_target) : ~DictHas(exports_map, canonical_to_target[i].v)

\* The file whose chunk this is.
ChunkPath(chunk) ==
    PathStr(CHOOSE p \in tree : StartsWith(chunk, create_section_header(PathStr(p))))
InPathOrder(chunks) ==
    \A i, j \in 1..Len(chunks) : i < j => StrLess(ChunkPath(chunks[i]), ChunkPath(chunks[j]))

\* C7: the chunks of each bundle are in sorted order of their relative paths, and
\* a second run on the same input tree writes the same two bundle texts as the
\* first, whatever the orders in which the directories were listed and the alias
\* sets iterated in either run.
C7_Deterministic ==
    /\ InPathOrder(main_chunks)
    /\ InPathOrder(test_chunks)
    /\ (pc = "done" /\ run > 1) => <<main_out, test_out>> = prev_out

\* A second run has ended with two main chunks, a target known under two aliases
\* and a test bundle that the alias rewrite has changed.
C7_Witness ==
    /\ pc = "done"
    /\ run > 1
    /\ Len(main_chunks) = 2
    /\ \E i \in 1..Len(target_to_aliases) : Cardinality(target_to_aliases[i].v) = 2
    /\ test_out # <<>>
    /\ test_out # Concat(AssembledParts(test_chunks, exports_map, canonical_to_target, TRUE))

\* find_ts_files has returned.
FindDone == pc # "find"

\* File names, compared without regard to case as find_ts_files compares them.
HasTestSuffix(name) == EndsWith(Lower(name), <<"_", "t", "e", "s", "t", ".", "t", "s">>)
HasSourceExtension(name) == EndsWith(Lower(name), <<".", "t", "s">>)
IsDeclarationOnly(name) == EndsWith(Lower(name), <<".", "d", ".", "t", "s">>)

\* A directory name that the walk must not enter; a path with such a name among
\* its first n components.
IsExcludedName(d) ==
    \/ d \in {<<"n", "o", "d", "e", "_", "m", "o", "d", "u", "l", "e", "s">>, <<"d", "i", "s", "t">>, <<"b",
                                                                                                        "u",
                                                                                                        "i",
                                                                                                        "l",
                                                                                                        "d">>}
    \/ d[1] = "."
UnderExcluded(path, n) == \E i \in 1..n : IsExcludedName(path[i])

\* C8: when find_ts_files has returned, every file not under an excluded directory
\* whose name ends in the test suffix is in test_files and not in main_files,
\* every other such file with the source extension that is not a declaration-only
\* file is in main_files and not in test_files, the lists hold nothing else, and
\* no file has a chunk in both bundles.
C8_Partition ==
    FindDone =>
        /\ \A f \in tree :
             ~UnderExcluded(f, Len(f) - 1) =>
                 /\ HasTestSuffix(Basename(f)) =>
                        f \in SeqToSet(test_files) /\ f \notin SeqToSet(main_files)
                 /\ (/\ ~HasTestSuffix(Basename(f))
                     /\ HasSourceExtension(Basename(f))
                     /\ ~IsDeclarationOnly(Basename(f))) =>
                        f \in SeqToSet(main_files) /\ f \notin SeqToSet(test_files)
        /\ \A f \in SeqToSet(main_files) \cup SeqToSet(test_files) :
             f \in tree /\ HasSourceExtension(Basename(f)) /\ ~IsDeclarationOnly(Basename(f))
        /\ Cardinality(SeqToSet(main_files)) = Len(main_files)
        /\ Cardinality(SeqToSet(test_files)) = Len(test_files)
        /\ \A f \in tree :
             /\ ~(HasChunk(main_chunks, f) /\ HasChunk(test_chunks, f))
             /\ ~(InBundle(main_out, f) /\ InBundle(test_out, f))

\* Both bundles are written for a tree that holds a main file, a test file whose
\* name is in upper case and a declaration-only file.
C8_Witness ==
    /\ pc = "done"
    /\ main_out # <<>>
    /\ test_out # <<>>
    /\ tree = {<<<<"a", ".", "t", "s">>>>, <<<<"U", "_", "T", "E", "S", "T", ".", "T", "S">>>>, <<<<"t",
                                                                                                    ".",
                                                                                                    "d",
                                                                                                    ".",
                                                                                                    "t",
                                                                                                    "s">>>>}

\* C9: the walk never visits a directory named node_modules, dist or build or
\* whose name begins with a dot, nor a directory below one, and a file under such
\* a directory is never classified, transformed or present in a bundle.
C9_ExcludedDirectories ==
    /\ \A d \in walked : ~UnderExcluded(d, Len(d))
    /\ \A f \in tree :
         UnderExcluded(f, Len(f) - 1) =>
             /\ f \notin SeqToSet(main_files) \cup SeqToSet(test_files)
             /\ ~HasChunk(main_chunks, f) /\ ~HasChunk(test_chunks, f)
             /\ ~DictHas(exports_map, f)
             /\ ~DictHas(namespace_imports_map, f)
             /\ ~InBundle(main_out, f) /\ ~InBundle(test_out, f)

\* A run has ended that walked the directory sub, which holds a source file and
\* the directories node_modules and build with source files of their own.
C9_Witness ==
    /\ pc = "done"
    /\ main_out # <<>>
    /\ <<<<"s", "u", "b">>>> \in walked
    /\ tree = { <<<<"s", "u", "b">>, <<"s", ".", "t", "s">>>>,
                <<<<"s", "u", "b">>, <<"n", "o", "d", "e", "_", "m", "o", "d", "u", "l", "e", "s">>, <<"n",
                                                                                                       ".",
                                                                                                       "t",
                                                                                                       "s">>>>,
                <<<<"s", "u", "b">>, <<"b", "u", "i", "l", "d">>, <<"k", "_", "t", "e", "s", "t",
                                                                    ".", "t", "s">>>> }

\* process_and_collect has returned for both lists.
ProcessingDone == pc \in {"plan", "assign", "asm_main", "asm_test", "done", "exit1"}

\* The files that process_and_collect has dealt with so far.
ProcessedFiles ==
    IF pc = "proc_main" THEN SeqToSet(SubSeq(main_files, 1, proc_i))
    ELSE IF pc = "proc_test"
         THEN SeqToSet(main_files) \cup SeqToSet(SubSeq(test_files, 1, proc_i))
    ELSE IF ProcessingDone THEN SeqToSet(main_files) \cup SeqToSet(test_files)
    ELSE {}

\* C10: a file that cannot be read is logged and leaves no chunk, no entry of the
\* exports map and no entry of the namespace-imports map; the files around it are
\* processed all the same (a chunk for every readable file with code, an exports
\* entry for every readable file with exports), and the run ends with status 1
\* only after a failed write.
C10_FileFailureIsolated ==
    /\ \A f \in ProcessedFiles \cap unreadable :
         /\ Logged("error_processing", PathStr(f))
         /\ ~HasChunk(main_chunks, f) /\ ~HasChunk(test_chunks, f)
         /\ ~DictHas(exports_map, f)
         /\ ~DictHas(namespace_imports_map, f)
    /\ \A f \in ProcessedFiles \ unreadable :
         /\ (\E i \in 1..Len(content[f]) : content[f][i].kind # "import_ns")
                => HasChunk(main_chunks, f) \/ HasChunk(test_chunks, f)
         /\ OriginalExports(f) # {} => DictGet(exports_map, f) = OriginalExports(f)
    /\ pc = "exit1" => \E i \in 1..Len(log) : log[i].kind = "failed_writing"
    /\ ProcessingDone \/ pc \in {"find", "found", "exit0", "proc_main", "proc_test"}

\* The run has ended normally although a.ts, which imports, exports and holds
\* code, could not be read; b.ts after it has its chunk and the test bundle is
\* written.
C10_Witness ==
    /\ pc = "done"
    /\ unreadable = {F_a}
    /\ OriginalExports(F_a) # {}
    /\ \E i \in 1..Len(content[F_a]) : content[F_a][i].kind = "import_ns"
    /\ HasChunk(main_chunks, F_b)
    /\ test_out # <<>>

---------------------------------------------------------------------------
(* Properties of the writes of main (Spec).                                *)

\* A bundle file has been written: its text begins with the license header.
MainWritten == main_out # <<>>
TestWritten == test_out # <<>>

\* find_ts_files has returned and main has tested its two lists.
ListsTested == pc \notin {"find", "found"}

\* C11: a bundle is written only if its group of classified files is not empty;
\* in a run that ends without a failed write the main bundle is written exactly
\* when main_files is not empty and the test bundle exactly when test_files is
\* not empty, whether or not any chunk was added; a non-empty group whose bundle
\* is not written at the end of a run is explained by a logged write failure; and
\* the run ends with status 0 before any write exactly when both lists are empty.
C11_WrittenIffGroupNonEmpty ==
    /\ MainWritten => main_files # <<>>
    /\ TestWritten => test_files # <<>>
    /\ pc = "done" =>
         /\ MainWritten <=> main_files # <<>>
         /\ TestWritten <=> test_files # <<>>
    /\ pc = "exit1" =>
         /\ main_files # <<>>
              => MainWritten \/ Logged("failed_writing", <<"c", "a", "t", "s", ".", "t", "s">>)
         /\ test_files # <<>>
              => \/ Logged("failed_writing", <<"c", "a", "t", "s", ".", "t", "s">>)
                 \/ Logged("failed_writing", <<"c", "a", "t", "s", "_", "t", "e", "s", "t", ".",
                                               "t", "s">>)
    /\ ListsTested => (pc = "exit0" <=> main_files = <<>> /\ test_files = <<>>)
    /\ pc = "exit0" => ~MainWritten /\ ~TestWritten

\* A run has ended that wrote the main bundle for a main group none of whose
\* files left a chunk, and no test bundle, there being no test file.
C11_Witness ==
    /\ pc = "done"
    /\ main_files # <<>>
    /\ main_chunks = <<>>
    /\ MainWritten
    /\ test_files = <<>>
    /\ ~TestWritten

\* C12: a failed write is logged and the process is then at exit status 1, the
\* failure being the last thing it logged; after a failed write of the main bundle
\* the test bundle is neither written nor attempted, and a bundle whose write
\* failed is not written.
C12_WriteFailureIsFatal ==
    /\ Logged("failed_writing", <<"c", "a", "t", "s", ".", "t", "s">>) =>
         /\ pc = "exit1"
         /\ ~MainWritten
         /\ ~TestWritten
         /\ ~Logged("failed_writing", <<"c", "a", "t", "s", "_", "t", "e", "s", "t", ".", "t", "s">>)
    /\ Logged("failed_writing", <<"c", "a", "t", "s", "_", "t", "e", "s", "t", ".", "t", "s">>) =>
         /\ pc = "exit1"
         /\ ~TestWritten
    /\ pc = "exit1" => log # <<>> /\ log[Len(log)].kind = "failed_writing"

\* The write of the main bundle has failed in a run that has test files with
\* chunks waiting to be assembled.
C12_Witness ==
    /\ pc = "exit1"
    /\ Logged("failed_writing", <<"c", "a", "t", "s", ".", "t", "s">>)
    /\ test_chunks # <<>>

---------------------------------------------------------------------------
(* Properties of the test bundle (SpecFind).                               *)

\* The first index at or after `from` where s occurs in text, or 0.
FirstAt(text, s, from) ==
    LET at == {i \in from..(Len(text) - Len(s) + 1) :
                  text[i] = s[1] /\ SubSeq(text, i, i + Len(s) - 1) = s}
    IN  IF at = {} THEN 0 ELSE CHOOSE i \in at : \A j \in at : i <= j

\* The segments occur in text one after the other, in this order, from `from` on.
RECURSIVE InOrderFrom(_, _, _)
InOrderFrom(text, segs, from) ==
    \/ segs = <<>>
    \/ LET p == FirstAt(text, Head(segs), from)
       IN  p # 0 /\ InOrderFrom(text, Tail(segs), p + Len(Head(segs)))

\* No rule of the redirect map changes a text.
NoRewrite == \A i \in 1..Len(alias_redirects) : alias_redirects[i].k = alias_redirects[i].v

\* The import statement that lists the keys of the canonical-alias map, sorted.
ExpectedImport ==
    <<"i", "m", "p", "o", "r", "t", " ", "{", " ">> \o Join(<<",", " ">>, SortedStrs(DictKeys(canonical_to_target)))
    \o <<" ", "}", " ", "f", "r", "o", "m", " ", "'", ".", "/", "c", "a", "t", "s", ".", "j",
         "s", "'", ";">>

\* C13: the written test bundle, when the alias rewrite leaves the assembled text
\* as it is, begins with the license header, ends with the statement that calls
\* runAllTestsAndReport, and between them holds, in this order, the import
\* statement of all canonical aliases from ./cats.js (once if the canonical-alias
\* map is not empty, no import statement otherwise), the test-harness payload,
\* and the test chunks in sorted order of their paths.
C13_TestBundleLayout ==
    (TestWritten /\ NoRewrite) =>
        /\ StartsWith(test_out, LICENSE_TEXT)
        /\ EndsWith(test_out, <<"\n", "r", "u", "n", "A", "l", "l", "T", "e", "s", "t", "s", "A",
                                "n", "d", "R", "e", "p", "o", "r", "t", "(", ")", ";", "\n">>)
        /\ InOrderFrom(test_out,
                       <<LICENSE_TEXT>>
                       \o (IF canonical_to_target # <<>> THEN <<ExpectedImport>> ELSE <<>>)
                       \o <<TEST_HARNESS_CODE>>
                       \o test_chunks
                       \o <<<<"\n", "r", "u", "n", "A", "l", "l", "T", "e", "s", "t", "s", "A",
                              "n", "d", "R", "e", "p", "o", "r", "t", "(", ")", ";", "\n">>>>,
                       1)
        /\ InPathOrder(test_chunks)
        /\ Occurrences(test_out, <<"i", "m", "p", "o", "r", "t", " ", "{">>) = (IF canonical_to_target # <<>> THEN 1 ELSE 0)
        /\ Occurrences(test_out, TEST_HARNESS_CODE) = 1
        /\ Occurrences(test_out, <<"r", "u", "n", "A", "l", "l", "T", "e", "s", "t", "s", "A",
                                   "n", "d", "R", "e", "p", "o", "r", "t", "(", ")", ";">>) = 1

\* A test bundle is written with an import of a canonical alias and two test chunks.
C13_Witness ==
    /\ TestWritten
    /\ NoRewrite
    /\ canonical_to_target # <<>>
    /\ Len(test_chunks) = 2

---------------------------------------------------------------------------
(* Properties of the captured exports (SpecExport).                        *)

\* The names that the export declarations, the named default exports and the
\* brace-list export clauses of a file's original content export.
ContributedNames(file) ==
    {IF s.kind = "export_list" /\ s.b # <<>> THEN s.b ELSE s.a :
        s \in {t \in SeqToSet(content[file]) :
                  t.kind \in {"export_decl", "export_default", "export_list"}}}

\* The set of exported names recorded for a file.
RecordedExports(file) == IF DictHas(exports_map, file) THEN DictGet(exports_map, file) ELSE {}

\* C14: the set of exported symbol names recorded for a processed file holds the
\* names of its export declarations, named default exports and brace-list export
\* clauses and no other name: a statement `export { ... } from` or `export * from`
\* adds none.
C14_ReExportAddsNoName ==
    \A f \in ProcessedFiles : RecordedExports(f) = ContributedNames(f)

\* A declaration of the local binding `name` occurs in text: a declaring keyword,
\* a space and the name as a whole word.
DeclaresBinding(text, name) ==
    \E kw \in CapturedKeywords :
        LET d == kw \o <<" ">> \o name
        IN  \E i \in 1..(Len(text) - Len(d) + 1) :
                /\ text[i] = d[1]
                /\ SubSeq(text, i, i + Len(d) - 1) = d
                /\ i = 1 \/ ~IsWordChar(text[i - 1])
                /\ i + Len(d) > Len(text) \/ ~IsWordChar(text[i + Len(d)])

\* C15: in the written main bundle, every member of every declaration
\* `export const <alias> = { ... }` is the name of a binding that some chunk of the
\* main bundle declares.
C15_MembersAreLocalBindings ==
    MainWritten =>
        \A i \in 1..Len(canonical_to_target) :
            LET alias == canonical_to_target[i].k
                members == SortedStrs(RecordedExports(canonical_to_target[i].v))
            IN  (members # <<>> /\ Occurrences(main_out, ConstDecl(alias, members)) > 0)
                    => \A k \in 1..Len(members) :
                          DeclaresBinding(Concat(main_chunks), members[k])

---------------------------------------------------------------------------
(* Properties that tie the two bundles together (Spec, SpecPlan).          *)

\* C16: whenever the written test bundle holds an import statement of canonical
\* aliases, the main bundle is written in the same run and holds a declaration
\* `export const <alias> =` for every alias the statement lists (the keys of the
\* canonical-alias map), and the statement still imports from './cats.js'.
C16_TestImportIsSatisfied ==
    (TestWritten /\ Occurrences(test_out, <<"i", "m", "p", "o", "r", "t", " ", "{">>) > 0) =>
        /\ MainWritten
        /\ \A alias \in DictKeys(canonical_to_target) :
             Occurrences(main_out, <<"e", "x", "p", "o", "r", "t", " ", "c", "o", "n", "s", "t",
                                     " ">> \o alias \o <<" ", "=">>) > 0
        /\ Occurrences(test_out, <<" ", "}", " ", "f", "r", "o", "m", " ", "'", ".", "/", "c",
                                   "a", "t", "s", ".", "j", "s", "'", ";">>) = 1

\* What the alias rewrite makes of a reference `<alias>.`, in any chunk.
RewrittenReference(alias) == ApplyRewrites(alias \o <<".">>, alias_redirects)

\* C17: once the planner has returned, for every file that namespace-imports a
\* resolved target under an alias, the canonical-alias map registers a canonical
\* alias for that target and the alias rewrite turns the file's references
\* `<alias>.` into `<canonical>.`, in the file's chunk as anywhere else.
C17_ReferencesReachTheirTarget ==
    PlanDone =>
        \A i \in 1..Len(namespace_imports_map) :
            \A j \in 1..Len(namespace_imports_map[i].v) :
                LET alias == namespace_imports_map[i].v[j].k
                    target == namespace_imports_map[i].v[j].v
                IN  \E c \in CanonicalsOf(target) :
                        RewrittenReference(alias) = c \o <<".">>

=============================================================================
